---- MODULE Spec2Model ----
(***************************************************************************)
(* rainfields_db: the GridFS-backed store of rain fields and cascade       *)
(* states (io/gridfs_io.py) and the file naming of utils/nc_utils.py.      *)
(*                                                                         *)
(* The store is two GridFS buckets, "rain" and "state".  A bucket is the   *)
(* set of its files documents, each with its chunks.  Every API call is a  *)
(* sequence of requests to the store; a request is one atomic step, and    *)
(* the steps of concurrent calls interleave.                               *)
(***************************************************************************)
EXTENDS Integers, Sequences, FiniteSets, TLC

VARIABLES
    files,      \* [Buckets -> set of files documents]: <bucket>.files with the chunks
    nextId,     \* the next ObjectId; ids grow with upload time (uploadDate)
    pc,         \* [Procs -> control point of the process's current call]
    call,       \* [Procs -> arguments and local variables of the current call]
    ret,        \* [Procs -> what the last completed call returned or raised]
    hist,       \* history: the write calls that completed, each with the id of
                \* its upload and its arguments
    configs,    \* the config collection: its documents in insertion order
    up          \* TRUE while the MongoDB server answers requests

vars == <<files, nextId, pc, call, ret, hist, configs, up>>

-----------------------------------------------------------------------------
(* Bounds of the model.                                                    *)

MaxUploads == 2         \* uploads made in one behaviour
MaxFaults == 1          \* chunk faults injected in one behaviour

-----------------------------------------------------------------------------
(* Python values.  Every value is a tagged record, so that values of       *)
(* different Python types compare unequal.                                 *)

None == [t |-> "none"]
Str(s) == [t |-> "str", s |-> s]
Num(n) == [t |-> "num", n |-> n]
Bool(b) == [t |-> "bool", b |-> b]
Arr(a) == [t |-> "arr", a |-> a]
\* A float of seconds: whole seconds and microseconds.
Seconds(s, us) == [t |-> "seconds", s |-> s, us |-> us]

\* datetime.datetime: wall-clock day and hour (year, month, minute and second
\* are fixed: July 2025, minute 0, second 0), microsecond, and tzinfo
\* (aware = FALSE: naive; aware = TRUE: utcoffset off, in hours).
Dt(day, hour, us, aware, off) ==
    [t |-> "dt", day |-> day, hour |-> hour, us |-> us, aware |-> aware, off |-> off]

IsDt(v) == v.t = "dt"

\* The instant of a datetime in hours, a naive one read as UTC.
Instant(d) == d.day * 24 + d.hour - d.off

\* dict.get(key): None when the key is absent.
Get(d, k) == IF k \in DOMAIN d THEN d[k] ELSE None

EmptyDict == [k \in {} |-> None]

\* dict.update(other)
Update(d, other) ==
    [k \in (DOMAIN d) \cup (DOMAIN other) |-> IF k \in DOMAIN other THEN other[k] ELSE d[k]]

\* d[key] = value
SetItem(d, k, v) == [x \in (DOMAIN d) \cup {k} |-> IF x = k THEN v ELSE d[x]]

Max(S) == CHOOSE x \in S : \A y \in S : y <= x
Min(S) == CHOOSE x \in S : \A y \in S : x <= y

-----------------------------------------------------------------------------
(* Strings are sequences of one-character strings; positions are Python's  *)
(* (from 0).                                                               *)

\* The characters of the model in code point order; Ord gives the rank.
CodePoints ==
    << "$", "%", "-", ".", "0", "1", "2", "3", "4", "5", "6", "7", "8", "9",
       "B", "E", "H", "M", "N", "P", "S", "T", "V", "Y", "_",
       "c", "d", "m", "n", "p", "q", "{", "}" >>

Ord(c) == CHOOSE i \in 1..Len(CodePoints) : CodePoints[i] = c

\* s < u in code point order (the order of a sort on a string field).
RECURSIVE StrLess(_, _)
StrLess(s, u) ==
    IF u = <<>> THEN FALSE
    ELSE IF s = <<>> THEN TRUE
    ELSE IF Head(s) = Head(u) THEN StrLess(Tail(s), Tail(u))
    ELSE Ord(Head(s)) < Ord(Head(u))

\* s.find(c, start): the first position >= start holding c, or -1.
Find(s, c, start) ==
    LET hits == {i \in start..(Len(s) - 1) : s[i + 1] = c}
    IN  IF hits = {} THEN -1 ELSE Min(hits)

\* s[lo:hi] for 0 <= lo
Slice(s, lo, hi) ==
    IF hi <= lo THEN <<>> ELSE SubSeq(s, lo + 1, IF hi > Len(s) THEN Len(s) ELSE hi)

\* s[lo:]
SliceFrom(s, lo) == Slice(s, lo, Len(s))

Digit(n) == CodePoints[5 + n]

RECURSIVE Digits(_)
Digits(n) == IF n < 10 THEN <<Digit(n)>> ELSE Digits(n \div 10) \o <<Digit(n % 10)>>

\* f"{n:02d}"
Pad2(n) ==
    IF n < 0 THEN <<"-">> \o Digits(-n)
    ELSE IF n < 10 THEN <<"0">> \o Digits(n)
    ELSE Digits(n)

\* datetime.strftime(fmt) for the directives %Y %m %d %H %M %S; any other
\* character is copied.
RECURSIVE strftime(_, _)
strftime(d, fmt) ==
    IF fmt = <<>> THEN <<>>
    ELSE IF Head(fmt) = "%" /\ Len(fmt) >= 2
    THEN LET x == fmt[2]
             field == CASE x = "Y" -> <<"2", "0", "2", "5">>
                        [] x = "m" -> <<"0", "7">>
                        [] x = "d" -> Pad2(d.day)
                        [] x = "H" -> Pad2(d.hour)
                        [] x = "M" -> <<"0", "0">>
                        [] x = "S" -> <<"0", "0">>
                        [] OTHER -> <<"%", x>>
         IN  field \o strftime(d, SubSeq(fmt, 3, Len(fmt)))
    ELSE <<Head(fmt)>> \o strftime(d, Tail(fmt))

TimeFormat == <<"%", "Y", "%", "m", "%", "d", "T", "%", "H", "%", "M", "%", "S">>

\* The default template of make_nc_name.
DefaultTemplate(base_time, ens) ==
    <<"$", "N", "_", "$", "P", "_", "$", "V", "{">> \o TimeFormat \o <<"}">>
    \o (IF base_time # None THEN <<"_", "$", "B", "{">> \o TimeFormat \o <<"}">> ELSE <<>>)
    \o (IF ens # None THEN <<"_", "$", "E">> ELSE <<>>)
    \o <<".", "n", "c">>

\* The outcome of a call: a value, or an exception to the caller.
Ok(v) == [rc |-> "ok", val |-> v]
Raise(e) == [rc |-> "raise", val |-> Str(e)]

MaxFlags == 8           \* flag replacements followed before giving up

\* The while loop of make_nc_name; fuel bounds the iterations followed.
RECURSIVE ReplaceFlags(_, _, _, _, _, _, _)
ReplaceFlags(result, name, prod, valid_time, base_time, ens, fuel) ==
    LET flag_posn == Find(result, "$", 0)
    IN  IF flag_posn = -1 THEN Ok(result)
        ELSE IF fuel = 0 THEN [rc |-> "loop", val |-> result]
        ELSE IF flag_posn + 1 >= Len(result) THEN Raise("IndexError")
        ELSE
        LET f_type == result[flag_posn + 2]
            field_start == Find(result, "{", flag_posn + 1)
            field_end == Find(result, "}", flag_posn + 1)
            fmt == Slice(result, field_start + 1, field_end)
            time_str == IF f_type = "V" THEN strftime(valid_time, fmt)
                        ELSE IF f_type = "B" /\ base_time # None THEN strftime(base_time, fmt)
                        ELSE <<>>
            before == Slice(result, 0, flag_posn)
            after == SliceFrom(result, flag_posn + 2)
        IN  IF f_type \in {"V", "B"}
            THEN IF field_start = -1 \/ field_end = -1 THEN Raise("ValueError")
                 ELSE ReplaceFlags(before \o time_str \o SliceFrom(result, field_end + 1),
                                   name, prod, valid_time, base_time, ens, fuel - 1)
            ELSE IF f_type = "N"
            THEN ReplaceFlags(before \o name \o after,
                              name, prod, valid_time, base_time, ens, fuel - 1)
            ELSE IF f_type = "P"
            THEN ReplaceFlags(before \o prod \o after,
                              name, prod, valid_time, base_time, ens, fuel - 1)
            ELSE IF f_type = "E" /\ ens # None
            THEN ReplaceFlags(before \o Pad2(ens.n) \o after,
                              name, prod, valid_time, base_time, ens, fuel - 1)
            ELSE Raise("ValueError")

\* make_nc_name(name, prod, valid_time, base_time, ens, name_template); a
\* naive time is tagged UTC, which no modelled directive prints.
make_nc_name(name, prod, valid_time, base_time, ens, name_template) ==
    IF ~IsDt(valid_time) THEN Raise("TypeError")
    ELSE IF base_time # None /\ ~IsDt(base_time) THEN Raise("TypeError")
    ELSE ReplaceFlags(IF name_template = None THEN DefaultTemplate(base_time, ens)
                      ELSE name_template.s,
                      name, prod, valid_time, base_time, ens, MaxFlags)

-----------------------------------------------------------------------------
(* Rasters, payloads and metadata.                                         *)

\* xarray.DataArray: the cell values in row-major order, a finite cell as
\* Num(hundredths of mm/h).
DataArray(cells) == [t |-> "da", vals |-> cells]
EmptyDataArray == DataArray(<<>>)
NaN == [t |-> "nan"]

\* Bytes of a NetCDF file holding the int16 grid raw (scale_factor 0.1).
NcBytes(raw) == [t |-> "nc", raw |-> raw]
\* Bytes of an .npz archive with the members cascade_levels and oflow.
NpzBytes(levels, oflow) == [t |-> "npz", cascade_levels |-> levels, oflow |-> oflow]
\* Bytes that are neither.
Junk == [t |-> "junk"]

\* read_netcdf_buffer(buffer)[0]: the rainfall variable unpacked with
\* scale_factor 0.1 (raw * 10 hundredths), negative cells set to NaN; bytes
\* that are no NetCDF file raise.
read_netcdf_buffer(buffer) ==
    IF buffer.t # "nc" THEN Raise("OSError")
    ELSE Ok(DataArray([i \in DOMAIN buffer.raw |->
                          IF buffer.raw[i] < 0 THEN NaN ELSE Num(buffer.raw[i] * 10)]))

\* What the store keeps of a value (BSON): a datetime becomes the naive UTC
\* datetime of the same instant, cut to milliseconds; a dict is kept key by key.
Bson(v) ==
    IF v.t = "dt"
    THEN LET inst == Instant(v)
         IN  Dt(inst \div 24, inst % 24, (v.us \div 1000) * 1000, FALSE, 0)
    ELSE v

BsonDoc(d) == [k \in DOMAIN d |-> Bson(d[k])]

\* A test that takes every time for timezone-aware.
NeverNaive(time) == FALSE

\* time.tzinfo is None or time.tzinfo.utcoffset(time) is None
Naive(time) == ~time.aware

\* a / b rounded to the nearest integer, ties to even (numpy.round), b > 0.
RoundDiv(a, b) ==
    LET q == a \div b
        r == a % b
    IN  IF 2 * r < b THEN q
        ELSE IF 2 * r > b THEN q + 1
        ELSE IF q % 2 = 0 THEN q ELSE q + 1

\* float -> np.int16 (astype): the integer itself when int16 holds it.  The
\* conversion of a value out of range is undefined in C; cast names what the
\* build makes of it: the low 16 bits, the smallest int16, or zero.
AsInt16(q, cast) ==
    IF q >= -32768 /\ q <= 32767 THEN q
    ELSE IF cast = "wrap" THEN ((q + 32768) % 65536) - 32768
    ELSE IF cast = "min" THEN -32768
    ELSE 0

Casts == {"wrap", "min", "zero"}

\* write_netcdf_buffer(rain, valid_time): the rainfall variable of the file.
\* NaN becomes fill_value / scale_factor = -10.0, every cell is divided by
\* scale_factor, rounded and cast to int16, and the cells that held -10.0 are
\* set to fill_value = -1.  Cells are in hundredths, so v / 0.1 is v / 10.
write_netcdf_buffer(rain, valid_time, cast) ==
    LET rain_data == [i \in DOMAIN rain.vals |->
                         IF rain.vals[i] = NaN THEN -1000 ELSE rain.vals[i].n]
    IN  NcBytes([i \in DOMAIN rain_data |->
                    IF rain_data[i] = -1000 THEN -1
                    ELSE AsInt16(RoundDiv(rain_data[i], 10), cast)])

RECURSIVE SumSeq(_)
SumSeq(s) == IF s = <<>> THEN 0 ELSE Head(s) + SumSeq(Tail(s))

\* The integer nearest to sqrt(a / b), known to be at most hi; a >= 0, b > 0.
SqrtDiv(a, b, hi) ==
    CHOOSE r \in 0..hi :
        /\ (2 * r - 1) * (2 * r - 1) * b <= 4 * a \/ r = 0
        /\ 4 * a < (2 * r + 1) * (2 * r + 1) * b

\* make_metadata(rain, product, domain, valid_time, base_time, ensemble) for a
\* raster of finite cells.  The statistics are in thousandths (rounded to 3
\* decimals).
make_metadata(rain, product, domain, valid_time, base_time, ensemble) ==
    IF Naive(valid_time) THEN Raise("ValueError")
    ELSE IF base_time # None /\ Naive(base_time) THEN Raise("ValueError")
    ELSE
    LET v == [i \in DOMAIN rain.vals |-> rain.vals[i].n]
        size == Len(v)
        total == SumSeq(v)
        wet == Cardinality({i \in DOMAIN v : v[i] >= 100})
        dev2 == SumSeq([i \in DOMAIN v |-> (size * v[i] - total) * (size * v[i] - total)])
        hi == Max({v[i] : i \in DOMAIN v})
        lo == Min({v[i] : i \in DOMAIN v})
    IN  Ok([ domain |-> Str(domain),
             product |-> Str(product),
             valid_time |-> valid_time,
             base_time |-> base_time,
             ensemble |-> ensemble,
             mean |-> Num(RoundDiv(total * 10, size)),
             wetted_area_ratio |-> Num(RoundDiv(wet * 1000, size)),
             std_dev |-> Num(SqrtDiv(100 * dev2, size * size * size, 10 * (hi - lo))),
             max |-> Num(hi * 10),
             forecast_lead_time |->
                 IF base_time # None
                 THEN Seconds((Instant(valid_time) - Instant(base_time)) * 3600,
                              valid_time.us - base_time.us)
                 ELSE None ])

-----------------------------------------------------------------------------
(* The store: GridFS buckets.                                              *)

Buckets == {"rain", "state"}

\* A files document with its chunks.  chunks is "ok", or what a fault made of
\* the chunk documents: "lost" (missing), "garbled" (bytes that decode to
\* nothing), "member" (an archive that opens, with unreadable members).
FileDoc(id, filename, metadata, data) ==
    [id |-> id, filename |-> filename, metadata |-> metadata, data |-> data,
     chunks |-> "ok"]

\* A find that ignores the filename.
FindAnyName(b, filename) == files[b]

\* find({"filename": filename}) on <bucket>.files
FindByName(b, filename) == {d \in files[b] : d.filename = filename}

Ids(b) == {d.id : d \in files[b]}

DocOf(b, id) == CHOOSE d \in files[b] : d.id = id

\* A delete that removes nothing.
BucketDeleteNothing(b, id) == files

\* bucket.delete(file_id): the files document and its chunks.
BucketDelete(b, id) == [files EXCEPT ![b] = {d \in @ : d.id # id}]

\* An upload that leaves the new file as the only file of the bucket.
UploadAlone(b, filename, source, metadata) ==
    [files EXCEPT ![b] = {FileDoc(nextId, filename, BsonDoc(metadata), source)}]

\* bucket.upload_from_stream(filename, source, metadata=metadata): the chunks,
\* then the files document, which makes the file visible.
UploadFromStream(b, filename, source, metadata) ==
    [files EXCEPT ![b] = @ \cup {FileDoc(nextId, filename, BsonDoc(metadata), source)}]

\* The revision open_download_stream_by_name opens: the latest upload.
LatestByName(b, filename) == Max({d.id : d \in FindByName(b, filename)})

\* A download that never fails: the bytes as they were uploaded.
ReadChunksIntact(b, id) == Ok(DocOf(b, id).data)

\* A request made while the server does not answer: the driver gives up after
\* its server selection timeout and raises; the call ends unless it catches.
ServerSelectionTimeoutError == Raise("ServerSelectionTimeoutError")

\* The bytes the chunks of a files document give; a missing chunk raises.
ReadChunks(b, id) ==
    IF ~up THEN ServerSelectionTimeoutError
    ELSE IF id \notin Ids(b) \/ DocOf(b, id).chunks = "lost" THEN Raise("CorruptGridFile")
    ELSE IF DocOf(b, id).chunks = "garbled" THEN Ok(Junk)
    ELSE IF DocOf(b, id).chunks = "member"
    THEN Ok([DocOf(b, id).data EXCEPT !.t = "npz-bad"])
    ELSE Ok(DocOf(b, id).data)

-----------------------------------------------------------------------------
(* Processes.  A process is idle, or inside one call of the API.           *)

Procs == {"p1", "p2", "p3"}

NoCall == [op |-> "-"]
NoRet == [rc |-> "-"]

WriteSteps == {"w_find", "w_delete", "w_upload"}

\* Uploads still to come from the calls in progress.
PendingUploads == Cardinality({q \in Procs : pc[q] \in WriteSteps})

\* A process may call when it is in no call.
CanCall(p) == pc[p] = "idle"

Goto(p, label) == pc' = [pc EXCEPT ![p] = label]
SetLocals(p, c) == call' = [call EXCEPT ![p] = c]
Finish(p, outcome) ==
    /\ pc' = [pc EXCEPT ![p] = "done"]
    /\ ret' = [ret EXCEPT ![p] = outcome]

Init ==
    /\ files = [b \in Buckets |-> {}]
    /\ nextId = 1
    /\ pc = [p \in Procs |-> "idle"]
    /\ call = [p \in Procs |-> NoCall]
    /\ ret = [p \in Procs |-> NoRet]
    /\ hist = {}
    /\ configs = <<>>
    /\ up = TRUE

-----------------------------------------------------------------------------
(* write_rainfield and write_state                                         *)

\* write_rainfield(db, filename, nc_buf, metadata) is called.
CallWriteRainfield(p, filename, nc_buf, metadata) ==
    /\ CanCall(p)
    /\ nextId + PendingUploads <= MaxUploads
    /\ Goto(p, "w_find")
    /\ SetLocals(p, [op |-> "write_rainfield", b |-> "rain", filename |-> filename,
                     source |-> nc_buf, metadata |-> metadata, found |-> {}, todo |-> {}])
    /\ ret' = [ret EXCEPT ![p] = NoRet]
    /\ UNCHANGED <<files, nextId, hist, configs, up>>

\* An archive that holds the cascade levels and no motion field.
LevelsOnly(cascade_dict, oflow) == NpzBytes(cascade_dict["cascade_levels"], Arr(<<>>))

\* The payload write_state uploads: np.savez_compressed(cascade_levels, oflow).
StateBuffer(cascade_dict, oflow) == NpzBytes(cascade_dict["cascade_levels"], oflow)

\* The metadata write_state uploads.
StateMetadata(cascade_dict, field_metadata) ==
    LET base == [ domain |-> Str("spatial"),
                  normalized |-> cascade_dict["normalized"],
                  transform |-> Get(cascade_dict, "transform"),
                  threshold |-> Get(cascade_dict, "threshold"),
                  zerovalue |-> Get(cascade_dict, "zerovalue") ]
        merged == Update(base, field_metadata)
        withMeans == IF "means" \in DOMAIN cascade_dict
                     THEN SetItem(merged, "means", cascade_dict["means"]) ELSE merged
    IN  IF "stds" \in DOMAIN cascade_dict
        THEN SetItem(withMeans, "stds", cascade_dict["stds"]) ELSE withMeans

\* A write_state without its assert: every domain passes.
AnyDomain(cascade_dict) == TRUE

\* assert cascade_dict["domain"] == "spatial"
Spatial(cascade_dict) == cascade_dict["domain"] = Str("spatial")

\* write_state(db, cascade_dict, oflow, file_name, field_metadata) is called:
\* the assert on the domain, before any request to the store.
CallWriteState(p, cascade_dict, oflow, file_name, field_metadata) ==
    /\ CanCall(p)
    /\ nextId + PendingUploads <= MaxUploads
    /\ IF Spatial(cascade_dict)
       THEN /\ Goto(p, "w_find")
            /\ SetLocals(p, [op |-> "write_state", b |-> "state", filename |-> file_name,
                             cascade_dict |-> cascade_dict, oflow |-> oflow,
                             field_metadata |-> field_metadata,
                             source |-> StateBuffer(cascade_dict, oflow),
                             metadata |-> StateMetadata(cascade_dict, field_metadata),
                             found |-> {}, todo |-> {}])
            /\ ret' = [ret EXCEPT ![p] = NoRet]
       ELSE /\ Finish(p, Raise("AssertionError"))
            /\ SetLocals(p, [op |-> "write_state", b |-> "state", filename |-> file_name,
                             cascade_dict |-> cascade_dict, oflow |-> oflow,
                             field_metadata |-> field_metadata])
    /\ UNCHANGED <<files, nextId, hist, configs, up>>

\* for old_file in db[<bucket>.files].find({"filename": filename}): the query.
\* todo is what the cursor still holds; found keeps what it held at first.
WriteFind(p) ==
    /\ pc[p] = "w_find"
    /\ IF ~up
       THEN /\ Finish(p, ServerSelectionTimeoutError)
            /\ UNCHANGED call
       ELSE LET found == {d.id : d \in FindByName(call[p].b, call[p].filename)}
            IN  /\ SetLocals(p, [call[p] EXCEPT !.todo = found, !.found = found])
                /\ Goto(p, IF found = {} THEN "w_upload" ELSE "w_delete")
                /\ UNCHANGED ret
    /\ UNCHANGED <<files, nextId, hist, configs, up>>

\* bucket.delete(old_file["_id"]) for the next document of the cursor; NoFile
\* when the document is gone already.
WriteDelete(p) ==
    /\ pc[p] = "w_delete"
    /\ \E id \in call[p].todo :
          IF ~up
          THEN /\ Finish(p, ServerSelectionTimeoutError)
               /\ UNCHANGED <<files, call>>
          ELSE IF id \in Ids(call[p].b)
          THEN /\ files' = BucketDelete(call[p].b, id)
               /\ SetLocals(p, [call[p] EXCEPT !.todo = @ \ {id}])
               /\ Goto(p, IF call[p].todo = {id} THEN "w_upload" ELSE "w_delete")
               /\ UNCHANGED ret
          ELSE /\ Finish(p, Raise("NoFile"))
               /\ UNCHANGED <<files, call>>
    /\ UNCHANGED <<nextId, hist, configs, up>>

\* The history after the write call c has completed; a write_state is logged
\* with the cascade and the motion field it was given.
Logged(c) ==
    hist \cup {[id |-> nextId, b |-> c.b, filename |-> c.filename, source |-> c.source,
                metadata |-> c.metadata, replaced |-> c.found,
                cascade_dict |-> Get(c, "cascade_dict"), oflow |-> Get(c, "oflow"),
                field_metadata |-> Get(c, "field_metadata")]}

\* bucket.upload_from_stream(filename, buffer, metadata=metadata); write_state
\* returns the file id, write_rainfield nothing.
WriteUpload(p) ==
    /\ pc[p] = "w_upload"
    /\ IF ~up
       THEN /\ Finish(p, ServerSelectionTimeoutError)
            /\ UNCHANGED <<files, nextId, hist>>
       ELSE /\ files' = UploadFromStream(call[p].b, call[p].filename, call[p].source,
                                         call[p].metadata)
            /\ nextId' = nextId + 1
            /\ Finish(p, Ok(IF call[p].op = "write_state" THEN Num(nextId) ELSE None))
            /\ hist' = Logged(call[p])
    /\ UNCHANGED <<call, configs, up>>

-----------------------------------------------------------------------------
(* get_rainfield and get_state                                             *)

\* An absent result whose metadata is None instead of the empty dictionary.
AbsentWithNone(b) ==
    IF b = "rain" THEN <<EmptyDataArray, None>>
    ELSE <<EmptyDict, Arr(<<>>), None>>

\* What a single-record read returns when the filename is not listed.
Absent(b) ==
    IF b = "rain" THEN <<EmptyDataArray, EmptyDict>>
    ELSE <<EmptyDict, Arr(<<>>), EmptyDict>>

\* What it returns when the download fails.
NoPayload(b, metadata) ==
    IF b = "rain" THEN <<EmptyDataArray, metadata>>
    ELSE <<EmptyDict, Arr(<<>>), metadata>>

\* The cascade dictionary get_state builds from the archive and the metadata.
StateCascade(npzfile, metadata) ==
    LET base == [ cascade_levels |-> npzfile.cascade_levels,
                  domain |-> Str("spatial"),
                  normalized |-> Get(metadata, "normalized"),
                  transform |-> Get(metadata, "transform"),
                  threshold |-> Get(metadata, "threshold"),
                  zerovalue |-> Get(metadata, "zerovalue") ]
        withMeans == IF "means" \in DOMAIN metadata
                     THEN SetItem(base, "means", metadata["means"]) ELSE base
    IN  IF "stds" \in DOMAIN metadata
        THEN SetItem(withMeans, "stds", metadata["stds"]) ELSE withMeans

\* get_rainfield after the download: read_netcdf_buffer inside the try.
RainfieldResult(bytes, metadata) ==
    IF read_netcdf_buffer(bytes).rc = "ok"
    THEN Ok(<<read_netcdf_buffer(bytes).val, metadata>>)
    ELSE Ok(NoPayload("rain", metadata))

\* get_state after the download: np.load and the member reads, outside the try.
StateResult(bytes, metadata) ==
    IF bytes.t # "npz" THEN Raise("ValueError")
    ELSE Ok(<<StateCascade(bytes, metadata), bytes.oflow, metadata>>)

\* get_rainfield(db, filename) or get_state(db, file_name) is called.  snap is
\* history: the uploads made and the documents of that name when the call began.
CallGet(p, b, filename) ==
    /\ CanCall(p)
    /\ Goto(p, "r_find")
    /\ SetLocals(p, [op |-> IF b = "rain" THEN "get_rainfield" ELSE "get_state",
                     b |-> b, filename |-> filename, metadata |-> EmptyDict,
                     grid_out |-> 0, snap |-> <<nextId, FindByName(b, filename)>>])
    /\ ret' = [ret EXCEPT ![p] = NoRet]
    /\ UNCHANGED <<files, nextId, hist, configs, up>>

\* result = db[mname].find_one({"filename": filename}): any document of that
\* name, or None and the absent result.
ReadFind(p) ==
    /\ pc[p] = "r_find"
    /\ IF ~up
       THEN /\ Finish(p, ServerSelectionTimeoutError)
            /\ UNCHANGED call
       ELSE IF FindByName(call[p].b, call[p].filename) = {}
       THEN /\ Finish(p, Ok(Absent(call[p].b)))
            /\ UNCHANGED call
       ELSE /\ \E result \in FindByName(call[p].b, call[p].filename) :
                  SetLocals(p, [call[p] EXCEPT !.metadata = result.metadata])
            /\ Goto(p, "r_open")
            /\ UNCHANGED ret
    /\ UNCHANGED <<files, nextId, hist, configs, up>>

\* The download opens the latest revision of the name; NoFile is caught, and
\* so is the error of a server that does not answer.
ReadOpen(p) ==
    /\ pc[p] = "r_open"
    /\ IF ~up \/ FindByName(call[p].b, call[p].filename) = {}
       THEN /\ Finish(p, Ok(NoPayload(call[p].b, call[p].metadata)))
            /\ UNCHANGED call
       ELSE /\ SetLocals(p, [call[p] EXCEPT
                                !.grid_out = LatestByName(call[p].b, call[p].filename)])
            /\ Goto(p, "r_read")
            /\ UNCHANGED ret
    /\ UNCHANGED <<files, nextId, hist, configs, up>>

\* The chunks are read (a failure is caught) and the payload is decoded.
ReadPayload(p) ==
    /\ pc[p] = "r_read"
    /\ LET got == ReadChunks(call[p].b, call[p].grid_out)
       IN  Finish(p, IF got.rc # "ok" THEN Ok(NoPayload(call[p].b, call[p].metadata))
                     ELSE IF call[p].b = "rain"
                     THEN RainfieldResult(got.val, call[p].metadata)
                     ELSE StateResult(got.val, call[p].metadata))
    /\ UNCHANGED <<files, nextId, call, hist, configs, up>>

\* The caller takes the outcome of its call; the process is idle again.
Return(p) ==
    /\ pc[p] = "done"
    /\ Goto(p, "idle")
    /\ SetLocals(p, NoCall)
    /\ ret' = [ret EXCEPT ![p] = NoRet]
    /\ UNCHANGED <<files, nextId, hist, configs, up>>

-----------------------------------------------------------------------------
(* get_rainfields_df and get_states_df                                     *)

\* The instant a <= the instant b, for datetimes as the store keeps them.
DtLeq(a, b) == Instant(a) < Instant(b) \/ (Instant(a) = Instant(b) /\ a.us <= b.us)

\* A query on metadata.product and metadata.valid_time: each condition is None
\* (not in the filter) or the product, and the range {"$gte": lo, "$lte": hi}.
Query(product, range) == [product |-> product, range |-> range]
Range(lo, hi) == [t |-> "range", gte |-> lo, lte |-> hi]

Matches(query, d) ==
    /\ query.product # None => Get(d.metadata, "product") = query.product
    /\ query.range # None =>
          /\ Get(d.metadata, "valid_time") # None
          /\ DtLeq(Bson(query.range.gte), d.metadata["valid_time"])
          /\ DtLeq(d.metadata["valid_time"], Bson(query.range.lte))

\* d comes before e in a sort on filename (documents of one name: by upload).
FileOrder(d, e) == StrLess(d.filename, e.filename) \/ (d.filename = e.filename /\ d.id <= e.id)

\* find(query, projection=fields).sort("filename", ASCENDING) as a list.
RECURSIVE SortByFilename(_)
SortByFilename(S) ==
    IF S = {} THEN <<>>
    ELSE LET first == CHOOSE d \in S : \A e \in S : FileOrder(d, e)
         IN  <<[filename |-> first.filename, metadata |-> first.metadata]>>
             \o SortByFilename(S \ {first})

\* The time as the store returned it.
AsStored(time) == time

\* A naive time is tagged UTC.
AsUtc(time) == IF time.aware THEN time ELSE [time EXCEPT !.aware = TRUE, !.off = 0]

\* The download and decoding of one payload in a batch read, all inside the
\* try: the decoded bytes, or the exception that skips the record.
BatchLoad(b, filename) ==
    IF ~up THEN ServerSelectionTimeoutError
    ELSE IF FindByName(b, filename) = {} THEN Raise("NoFile")
    ELSE LET got == ReadChunks(b, LatestByName(b, filename))
         IN  IF got.rc # "ok" THEN got
             ELSE IF b = "rain" THEN read_netcdf_buffer(got.val)
             ELSE IF got.val.t \in {"npz", "npz-bad"} THEN got
             ELSE Raise("ValueError")

\* The row get_rainfields_df appends.
RainRow(metadata_dict, rainfield) ==
    [ domain |-> Get(metadata_dict, "domain"),
      product |-> Get(metadata_dict, "product"),
      valid_time |-> AsUtc(metadata_dict["valid_time"]),
      base_time |-> IF Get(metadata_dict, "base_time") # None
                    THEN AsUtc(metadata_dict["base_time"]) ELSE None,
      ensemble |-> Get(metadata_dict, "ensemble"),
      rainfield |-> rainfield,
      metadata |-> metadata_dict ]

\* The row get_states_df appends.
StateRow(metadata_dict, npzfile, get_cascade, get_optical_flow) ==
    [ domain |-> Get(metadata_dict, "domain"),
      product |-> Get(metadata_dict, "product"),
      valid_time |-> AsUtc(metadata_dict["valid_time"]),
      base_time |-> IF Get(metadata_dict, "base_time") # None
                    THEN AsUtc(metadata_dict["base_time"]) ELSE None,
      ensemble |-> Get(metadata_dict, "ensemble"),
      cascade |-> IF get_cascade
                  THEN [ cascade_levels |-> npzfile.cascade_levels,
                         domain |-> Str("spatial"),
                         normalized |-> Get(metadata_dict, "normalized"),
                         transform |-> Get(metadata_dict, "transform"),
                         threshold |-> Get(metadata_dict, "threshold"),
                         zerovalue |-> Get(metadata_dict, "zerovalue"),
                         means |-> Get(metadata_dict, "means"),
                         stds |-> Get(metadata_dict, "stds") ]
                  ELSE None,
      optical_flow |-> IF get_optical_flow THEN npzfile.oflow ELSE None,
      metadata |-> metadata_dict ]

\* pd.DataFrame(columns=[...]): the table returned when nothing matches.
EmptyTable(b) ==
    [ columns |-> IF b = "rain"
                  THEN <<"product", "valid_time", "base_time", "ensemble", "rainfield",
                         "metadata">>
                  ELSE <<"product", "valid_time", "base_time", "ensemble", "cascade",
                         "optical_flow", "metadata">>,
      rows |-> <<>> ]

\* df = pd.DataFrame(records); df["valid_time"] = ...: with no record the
\* frame has no column and df["valid_time"] raises KeyError.
Frame(b, records) ==
    IF records = <<>> THEN Raise("KeyError")
    ELSE Ok([ columns |-> IF b = "rain"
                          THEN <<"domain", "product", "valid_time", "base_time",
                                 "ensemble", "rainfield", "metadata">>
                          ELSE <<"domain", "product", "valid_time", "base_time",
                                 "ensemble", "cascade", "optical_flow", "metadata">>,
              rows |-> records ])

\* get_rainfields_df(db, query) or get_states_df(db, query, get_cascade,
\* get_optical_flow) is called.
CallBatch(p, b, query, get_cascade, get_optical_flow) ==
    /\ CanCall(p)
    /\ Goto(p, "q_find")
    /\ SetLocals(p, [op |-> IF b = "rain" THEN "get_rainfields_df" ELSE "get_states_df",
                     b |-> b, query |-> query, get_cascade |-> get_cascade,
                     get_optical_flow |-> get_optical_flow,
                     results |-> <<>>, i |-> 1, records |-> <<>>])
    /\ ret' = [ret EXCEPT ![p] = NoRet]
    /\ UNCHANGED <<files, nextId, hist, configs, up>>

\* results = list(meta_coll.find(query, projection=fields).sort("filename")),
\* and the empty table when nothing matches.
BatchFind(p) ==
    /\ pc[p] = "q_find"
    /\ LET results == SortByFilename({d \in files[call[p].b] : Matches(call[p].query, d)})
       IN  IF ~up
           THEN /\ Finish(p, ServerSelectionTimeoutError)
                /\ UNCHANGED call
           ELSE IF results = <<>>
           THEN /\ Finish(p, Ok(EmptyTable(call[p].b)))
                /\ UNCHANGED call
           ELSE /\ SetLocals(p, [call[p] EXCEPT !.results = results])
                /\ Goto(p, "q_loop")
                /\ UNCHANGED ret
    /\ UNCHANGED <<files, nextId, hist, configs, up>>

\* One turn of the loop over results, and the frame after the last one.  A
\* document without valid_time and a payload that fails to load are skipped;
\* get_states_df reads the archive members outside the try.
BatchFetch(p) ==
    /\ pc[p] = "q_loop"
    /\ LET c == call[p]
           doc == c.results[c.i]
           metadata_dict == doc.metadata
           loaded == BatchLoad(c.b, doc.filename)
           skip == Get(metadata_dict, "valid_time") = None \/ loaded.rc # "ok"
           row == IF c.b = "rain" THEN RainRow(metadata_dict, loaded.val)
                  ELSE StateRow(metadata_dict, loaded.val, c.get_cascade,
                                c.get_optical_flow)
           records == IF skip THEN c.records ELSE Append(c.records, row)
       IN  IF /\ ~skip
              /\ c.b = "state"
              /\ loaded.val.t = "npz-bad"
              /\ (c.get_cascade \/ c.get_optical_flow)
           THEN /\ Finish(p, Raise("BadZipFile"))
                /\ UNCHANGED call
           ELSE IF c.i = Len(c.results)
           THEN /\ Finish(p, Frame(c.b, records))
                /\ SetLocals(p, [c EXCEPT !.records = records])
           ELSE /\ SetLocals(p, [c EXCEPT !.records = records, !.i = c.i + 1])
                /\ UNCHANGED <<pc, ret>>
    /\ UNCHANGED <<files, nextId, hist, configs, up>>

-----------------------------------------------------------------------------
(* Faults of the store: the chunks of a stored file are lost or damaged.   *)

Faulted == UNION {{d \in files[b] : d.chunks # "ok"} : b \in Buckets}

ChunkFault(b, id, kind) ==
    /\ \A p \in Procs : CanCall(p)
    /\ Cardinality(Faulted) < MaxFaults
    /\ id \in Ids(b)
    /\ DocOf(b, id).chunks = "ok"
    /\ files' = [files EXCEPT ![b] =
                    (@ \ {DocOf(b, id)}) \cup {[DocOf(b, id) EXCEPT !.chunks = kind]}]
    /\ UNCHANGED <<nextId, pc, call, ret, hist, configs, up>>

-----------------------------------------------------------------------------
(* Concurrent callers: two writers and a reader, any interleaving of the   *)
(* requests of their calls.                                                *)

Writers == {"p1", "p2"}
Readers == {"p3"}

DomainName == <<"d">>
ProductName == <<"p">>

\* Times of July 2025, timezone-aware UTC: day 3, 00:00 and 01:00.
T0 == Dt(3, 0, 0, TRUE, 0)
T1 == Dt(3, 1, 0, TRUE, 0)

Rain1 == DataArray(<<Num(30), Num(120)>>)
Rain2 == DataArray(<<Num(250), Num(0)>>)

\* Canonical names and the metadata make_metadata gives.
NameOf(valid_time) == make_nc_name(DomainName, ProductName, valid_time, None, None, None).val
MetaOf(rain, valid_time) ==
    make_metadata(rain, ProductName, DomainName, valid_time, None, None).val

\* A forecast record: base time 18:00 UTC on day 2, ensemble member 1.
TBase == Dt(2, 18, 0, TRUE, 0)
MetaFx(rain, valid_time) ==
    make_metadata(rain, ProductName, DomainName, valid_time, TBase, Num(1)).val

ConcFiles == {NameOf(T0), NameOf(T1)}
\* write_rainfield arguments: the NetCDF bytes of a raster and its metadata.
ConcRain == { <<NcBytes(<<3, 12>>), MetaOf(Rain1, T0)>>,
              <<NcBytes(<<25, 0>>), MetaOf(Rain2, T0)>> }

\* Cascade dictionaries: normalized with means and stds, and not normalized.
Levels1 == Arr(<<1, 2, 3>>)
Levels2 == Arr(<<4, 5, 6>>)
Cascade(levels, normalized) ==
    LET base == [ domain |-> Str("spatial"), cascade_levels |-> levels,
                  normalized |-> Bool(normalized), transform |-> None,
                  threshold |-> Num(10), zerovalue |-> Num(0) ]
    IN  IF normalized
        THEN SetItem(SetItem(base, "means", Arr(<<7, 8, 9>>)), "stds", Arr(<<1, 1, 2>>))
        ELSE base

ConcCascades == {Cascade(Levels1, TRUE), Cascade(Levels2, FALSE)}
Oflow1 == Arr(<<1, -1>>)

Next ==
    \/ \E p \in Writers :
          \/ \E f \in ConcFiles, a \in ConcRain : CallWriteRainfield(p, f, a[1], a[2])
          \/ \E c \in ConcCascades : CallWriteState(p, c, Oflow1, NameOf(T0), MetaOf(Rain1, T0))
          \/ WriteFind(p)
          \/ WriteDelete(p)
          \/ WriteUpload(p)
          \/ Return(p)
    \/ \E p \in Readers :
          \/ \E b \in Buckets, f \in ConcFiles : CallGet(p, b, f)
          \/ ReadFind(p)
          \/ ReadOpen(p)
          \/ ReadPayload(p)
          \/ Return(p)

Spec == Init /\ [][Next]_vars

-----------------------------------------------------------------------------
(* One caller: the calls run one after the other, and chunk faults strike  *)
(* between calls.                                                          *)

Caller == "p1"

\* 02:00 at UTC+3 on day 3, which is 23:00 UTC on day 2.
TOff == Dt(3, 2, 0, TRUE, 3)

Nc1 == NcBytes(<<3, 12>>)
Nc2 == NcBytes(<<25, 0>>)

\* A metadata dictionary without valid_time.
NoTimeMeta == [domain |-> Str(DomainName), product |-> Str(ProductName)]

\* write_rainfield arguments <<filename, nc_buf, metadata>>: records under
\* their canonical names, a record without valid_time, a payload that is no
\* NetCDF file.
SeqRain ==
    { <<NameOf(T0), Nc1, MetaOf(Rain1, T0)>>,
      <<NameOf(T0), Nc2, MetaFx(Rain2, T0)>>,
      <<NameOf(T1), Nc2, MetaOf(Rain2, T1)>>,
      <<NameOf(TOff), Nc1, MetaOf(Rain1, TOff)>>,
      <<NameOf(T1), Nc1, NoTimeMeta>>,
      <<NameOf(T1), Junk, MetaOf(Rain1, T1)>> }

\* A cascade of another domain.
Spectral == [Cascade(Levels1, FALSE) EXCEPT !.domain = Str("spectral")]

\* A field_metadata dictionary with keys that write_state sets from the cascade.
CodecMeta ==
    Update(MetaOf(Rain1, T1),
           [normalized |-> Bool(TRUE), threshold |-> Num(99), means |-> Arr(<<0>>)])

\* write_state arguments <<cascade_dict, oflow, file_name, field_metadata>>.
SeqState ==
    { <<Cascade(Levels1, TRUE), Oflow1, NameOf(T0), MetaOf(Rain1, T0)>>,
      <<Cascade(Levels2, FALSE), Oflow1, NameOf(T1), CodecMeta>>,
      <<Cascade(Levels2, FALSE), Oflow1, NameOf(T1), MetaFx(Rain2, T1)>>,
      <<Cascade(Levels2, FALSE), Oflow1, NameOf(T1), NoTimeMeta>>,
      <<Spectral, Oflow1, NameOf(T0), MetaOf(Rain1, T0)>> }

SeqFiles == {NameOf(T0), NameOf(T1)}

SeqTimes == {T0, T1, TOff}

\* Queries: everything, one product, one product within [lo, hi].
SeqQueries ==
    {Query(None, None), Query(Str(ProductName), None)}
    \cup {Query(Str(ProductName), Range(x[1], x[2])) :
             x \in {y \in SeqTimes \X SeqTimes : Instant(y[1]) <= Instant(y[2])}}

SeqStateQueries == {Query(None, None), Query(Str(ProductName), Range(T0, T1))}

FaultKinds(b) == IF b = "rain" THEN {"lost", "garbled"} ELSE {"lost", "garbled", "member"}

NextSeq ==
    \/ \E a \in SeqRain : CallWriteRainfield(Caller, a[1], a[2], a[3])
    \/ \E a \in SeqState : CallWriteState(Caller, a[1], a[2], a[3], a[4])
    \/ WriteFind(Caller)
    \/ WriteDelete(Caller)
    \/ WriteUpload(Caller)
    \/ \E b \in Buckets, f \in SeqFiles : CallGet(Caller, b, f)
    \/ ReadFind(Caller)
    \/ ReadOpen(Caller)
    \/ ReadPayload(Caller)
    \/ \E q \in SeqQueries : CallBatch(Caller, "rain", q, TRUE, TRUE)
    \/ \E q \in SeqStateQueries, both \in BOOLEAN : CallBatch(Caller, "state", q, both, both)
    \/ BatchFind(Caller)
    \/ BatchFetch(Caller)
    \/ Return(Caller)
    \/ \E b \in Buckets : \E id \in Ids(b), kind \in FaultKinds(b) : ChunkFault(b, id, kind)

SpecSeq == Init /\ [][NextSeq]_vars

-----------------------------------------------------------------------------
(* get_config and write_config (utils/db_utils.py): the config collection. *)
(* A document is {"time": ..., "config": ...}; time counts the             *)
(* milliseconds of the clock that write_config reads.                      *)

MaxConfigs == 3         \* documents inserted into the config collection

\* The positions of the documents the filter {'config.name': name} matches.
ConfigMatches(name) ==
    {i \in 1..Len(configs) : Get(configs[i].config, "name") = Str(name)}

\* sort=[('time', ASCENDING)] would give the smallest time first.
EarliestTime(times) == Min(times)

\* sort=[('time', DESCENDING)]: the time of the first document of the sort.
LatestTime(times) == Max(times)

\* find_one({'config.name': name}, sort=[('time', DESCENDING)]): the documents
\* it may return, any one of those that share the first place of the sort.
FindOneConfig(name) ==
    {configs[i] : i \in {j \in ConfigMatches(name) :
        configs[j].time = LatestTime({configs[k].time : k \in ConfigMatches(name)})}}

\* A write that keeps one document only: the new one takes the place of all.
ReplaceAll(record) == <<[time |-> record.time, config |-> BsonDoc(record.config)]>>

\* collection.insert_one(record)
InsertOne(record) ==
    Append(configs, [time |-> record.time, config |-> BsonDoc(record.config)])

\* datetime.now(utc) as the store keeps it: the clock never runs backwards, and
\* two readings may fall into the same millisecond.
Now ==
    LET last == IF configs = <<>> THEN 1
                ELSE Max({configs[i].time : i \in 1..Len(configs)})
    IN  {last, last + 1}

\* get_config(db, name) is called.
CallGetConfig(p, name) ==
    /\ CanCall(p)
    /\ Goto(p, "c_find")
    /\ SetLocals(p, [op |-> "get_config", name |-> name])
    /\ ret' = [ret EXCEPT ![p] = NoRet]
    /\ UNCHANGED <<files, nextId, hist, configs, up>>

\* record = config_coll.find_one(...), then {} or record['config'].
ConfigFind(p) ==
    /\ pc[p] = "c_find"
    /\ IF ~up THEN Finish(p, ServerSelectionTimeoutError)
       ELSE IF FindOneConfig(call[p].name) = {} THEN Finish(p, Ok(EmptyDict))
       ELSE \E record \in FindOneConfig(call[p].name) : Finish(p, Ok(record.config))
    /\ UNCHANGED <<files, nextId, call, hist, configs, up>>

\* write_config(config) is called: the record is built with the current time.
CallWriteConfig(p, config) ==
    /\ CanCall(p)
    /\ Len(configs) < MaxConfigs
    /\ \E now \in Now :
          SetLocals(p, [op |-> "write_config", config |-> config,
                        record |-> [time |-> now, config |-> config]])
    /\ Goto(p, "c_insert")
    /\ ret' = [ret EXCEPT ![p] = NoRet]
    /\ UNCHANGED <<files, nextId, hist, configs, up>>

\* collection.insert_one(record) inside the try: ServerSelectionTimeoutError
\* and PyMongoError are logged, and write_config returns None either way.
ConfigInsert(p) ==
    /\ pc[p] = "c_insert"
    /\ configs' = IF up THEN InsertOne(call[p].record) ELSE configs
    /\ Finish(p, Ok(None))
    /\ UNCHANGED <<files, nextId, call, hist, up>>

-----------------------------------------------------------------------------
(* The server stops answering, and answers again.                          *)

\* An outage begins before a call or between two of its requests.
Outage ==
    /\ up
    /\ \A p \in Procs : pc[p] # "done"
    /\ up' = FALSE
    /\ UNCHANGED <<files, nextId, pc, call, ret, hist, configs>>

\* The server answers again; no call is in progress.
Recover ==
    /\ ~up
    /\ \A p \in Procs : CanCall(p)
    /\ up' = TRUE
    /\ UNCHANGED <<files, nextId, pc, call, ret, hist, configs>>

-----------------------------------------------------------------------------
(* One caller of get_config and write_config, and outages of the server.   *)

Akl == <<"A", "K", "L">>
Wlg == <<"W", "L", "G">>

\* Configuration dictionaries: two versions for AKL, one for WLG.
CfgConfigs ==
    { [name |-> Str(Akl), n_cascade_levels |-> Num(6)],
      [name |-> Str(Akl), n_cascade_levels |-> Num(8)],
      [name |-> Str(Wlg), n_cascade_levels |-> Num(6)] }

CfgNames == {Akl, Wlg}

NextCfg ==
    \/ \E name \in CfgNames : CallGetConfig(Caller, name)
    \/ ConfigFind(Caller)
    \/ \E config \in CfgConfigs : CallWriteConfig(Caller, config)
    \/ ConfigInsert(Caller)
    \/ Return(Caller)
    \/ Outage
    \/ Recover

SpecCfg == Init /\ [][NextCfg]_vars

-----------------------------------------------------------------------------
(* One caller, every operation of the layer, and outages of the server.    *)

\* write_rainfield arguments: two fields under one name, one under another.
StoreRain ==
    { <<NameOf(T0), Nc1, MetaOf(Rain1, T0)>>,
      <<NameOf(T0), Nc2, MetaOf(Rain2, T0)>>,
      <<NameOf(T1), Nc1, MetaOf(Rain1, T1)>> }

\* write_state arguments.
StoreState == { <<Cascade(Levels1, TRUE), Oflow1, NameOf(T0), MetaOf(Rain1, T0)>> }

NextStore ==
    \/ \E a \in StoreRain : CallWriteRainfield(Caller, a[1], a[2], a[3])
    \/ \E a \in StoreState : CallWriteState(Caller, a[1], a[2], a[3], a[4])
    \/ WriteFind(Caller)
    \/ WriteDelete(Caller)
    \/ WriteUpload(Caller)
    \/ \E b \in Buckets : CallGet(Caller, b, NameOf(T0))
    \/ ReadFind(Caller)
    \/ ReadOpen(Caller)
    \/ ReadPayload(Caller)
    \/ \E b \in Buckets : CallBatch(Caller, b, Query(None, None), TRUE, TRUE)
    \/ BatchFind(Caller)
    \/ BatchFetch(Caller)
    \/ CallGetConfig(Caller, Akl)
    \/ ConfigFind(Caller)
    \/ CallWriteConfig(Caller, [name |-> Str(Akl), n_cascade_levels |-> Num(6)])
    \/ ConfigInsert(Caller)
    \/ Return(Caller)
    \/ Outage
    \/ Recover

SpecStore == Init /\ [][NextStore]_vars

-----------------------------------------------------------------------------
(* The helper functions called on their own, by one caller.                *)

\* make_metadata(rain, product, domain, valid_time, base_time, ensemble)
CallMakeMetadata(p, rain, product, domain, valid_time, base_time, ensemble) ==
    /\ CanCall(p)
    /\ SetLocals(p, [op |-> "make_metadata", rain |-> rain, product |-> product,
                     domain |-> domain, valid_time |-> valid_time,
                     base_time |-> base_time, ensemble |-> ensemble])
    /\ Finish(p, make_metadata(rain, product, domain, valid_time, base_time, ensemble))
    /\ UNCHANGED <<files, nextId, hist, configs, up>>

\* make_nc_name(name, prod, valid_time, base_time, ens, name_template); a call
\* whose loop does not end never returns.
CallMakeNcName(p, name, prod, valid_time, base_time, ens, name_template) ==
    /\ CanCall(p)
    /\ SetLocals(p, [op |-> "make_nc_name", name |-> name, prod |-> prod,
                     valid_time |-> valid_time, base_time |-> base_time, ens |-> ens,
                     name_template |-> name_template])
    /\ LET out == make_nc_name(name, prod, valid_time, base_time, ens, name_template)
       IN  IF out.rc = "loop"
           THEN /\ Goto(p, "n_loop")
                /\ ret' = [ret EXCEPT ![p] = NoRet]
           ELSE Finish(p, out)
    /\ UNCHANGED <<files, nextId, hist, configs, up>>

\* Arguments of make_metadata: aware and naive times.
\* A conversion that keeps the wall clock and drops the offset.
KeepClock(valid_time) == [valid_time EXCEPT !.aware = TRUE, !.off = 0]

\* write_netcdf_buffer: a valid_time without tzinfo gets UTC, one with tzinfo is
\* converted to UTC (astimezone).  Offsets are whole hours.
ToUtc(valid_time) ==
    IF ~valid_time.aware THEN [valid_time EXCEPT !.aware = TRUE, !.off = 0]
    ELSE LET inst == Instant(valid_time)
         IN  Dt(inst \div 24, inst % 24, valid_time.us, TRUE, 0)

\* t_var[0] = int(valid_time.timestamp()): whole seconds since 1970-01-01T00:00Z.
\* 1751328000 is 2025-07-01T00:00Z; the microseconds are cut off.
t_var(valid_time) ==
    LET utc == ToUtc(valid_time)
    IN  1751328000 + ((utc.day - 1) * 24 + utc.hour) * 3600 + (utc.us \div 1000000)

\* read_netcdf_buffer(buffer)[1]: num2date of the time variable, tagged UTC.
\* A count of seconds has no microseconds; the times here are whole hours.
num2date(seconds) ==
    LET hours == (seconds - 1751328000) \div 3600
    IN  Dt(hours \div 24 + 1, hours % 24, 0, TRUE, 0)

\* The valid_time written by write_netcdf_buffer and read by read_netcdf_buffer.
CallTimeRoundTrip(p, valid_time) ==
    /\ CanCall(p)
    /\ SetLocals(p, [op |-> "time_round_trip", valid_time |-> valid_time])
    /\ Finish(p, Ok(num2date(t_var(valid_time))))
    /\ UNCHANGED <<files, nextId, hist, configs, up>>

\* Times with and without tzinfo, with an offset, and with microseconds.
FnCodecTimes ==
    {T0, T1, TOff, Dt(3, 1, 0, FALSE, 0), Dt(3, 1, 500000, TRUE, 0),
     Dt(3, 1, 999999, FALSE, 0), Dt(2, 23, 500000, TRUE, -2)}

\* write_netcdf_buffer and read_netcdf_buffer, one after the other.
CallRoundTrip(p, rain, valid_time, cast) ==
    /\ CanCall(p)
    /\ SetLocals(p, [op |-> "round_trip", rain |-> rain, valid_time |-> valid_time])
    /\ Finish(p, read_netcdf_buffer(write_netcdf_buffer(rain, valid_time, cast)))
    /\ UNCHANGED <<files, nextId, hist, configs, up>>

\* Cell values in hundredths of mm/h: NaN, zero, values on and between the
\* steps of 0.1, the largest value int16 holds and the first beyond it, and
\* values below zero.
FnCells ==
    {NaN, Num(0), Num(3), Num(5), Num(15), Num(1234), Num(327670), Num(327680),
     Num(-3), Num(-5), Num(-30), Num(-1000)}

FnRasters == {DataArray(<<a, b>>) : a \in FnCells, b \in FnCells}

FnRains == {Rain1, Rain2}
FnValidTimes == {T0, Dt(3, 0, 0, FALSE, 0), TOff}
FnBaseTimes == {None, TBase, Dt(2, 18, 0, FALSE, 0)}
FnEnsembles == {None, Num(1), Num(12)}

\* Arguments of make_nc_name with the default template: names with '_' and
\* with '$', and times of one wall clock that are different instants.
FnNames == {<<"d">>, <<"d", "_", "p">>, <<"$", "P">>, <<"$", "N">>}
FnProducts == {<<"p">>, <<"p", "_", "p">>}
FnNameTimes == {T1, Dt(3, 1, 0, TRUE, 3), Dt(3, 1, 0, FALSE, 0), Dt(3, 1, 500000, TRUE, 0)}

\* Templates given by the caller:
\*   $N_$Q        a token letter that is none of N, P, V, B, E
\*   $V.nc        $V without braces
\*   $V_$B{%H}    $V without braces before a $B that has them
\*   $N_$B{%H}    well formed; misused when base_time is None
\*   $N_$E        well formed; misused when ens is None
\*   $N$          '$' as the last character
\*   $P-$V{%d}    well formed
FnTemplates ==
    { Str(<<"$", "N", "_", "$", "Q">>),
      Str(<<"$", "V", ".", "n", "c">>),
      Str(<<"$", "V", "_", "$", "B", "{", "%", "H", "}">>),
      Str(<<"$", "N", "_", "$", "B", "{", "%", "H", "}">>),
      Str(<<"$", "N", "_", "$", "E">>),
      Str(<<"$", "N", "$">>),
      Str(<<"$", "P", "-", "$", "V", "{", "%", "d", "}">>) }

NextFn ==
    \/ \E rain \in FnRains, vt \in FnValidTimes, bt \in FnBaseTimes, e \in FnEnsembles :
          CallMakeMetadata(Caller, rain, ProductName, DomainName, vt, bt, e)
    \/ \E n \in FnNames, pr \in FnProducts, vt \in FnNameTimes, bt \in {None, TBase},
          e \in FnEnsembles :
          CallMakeNcName(Caller, n, pr, vt, bt, e, None)
    \/ \E tpl \in FnTemplates, bt \in {None, TBase}, e \in FnEnsembles :
          CallMakeNcName(Caller, DomainName, ProductName, T1, bt, e, tpl)
    \/ \E rain \in FnRasters, cast \in Casts : CallRoundTrip(Caller, rain, T0, cast)
    \/ \E vt \in FnCodecTimes : CallTimeRoundTrip(Caller, vt)
    \/ Return(Caller)

SpecFn == Init /\ [][NextFn]_vars

-----------------------------------------------------------------------------
(* Properties.  hist holds one entry per completed upload, with the id the *)
(* store gave it, so the latest write to a name is the entry of highest id. *)

WritesTo(b, f) == {w \in hist : w.b = b /\ w.filename = f}
LastWrite(b, f) == CHOOSE w \in WritesTo(b, f) : \A x \in WritesTo(b, f) : x.id <= w.id
Writing(b, f) ==
    \E p \in Procs : pc[p] \in WriteSteps /\ call[p].b = b /\ call[p].filename = f
Written == {w.filename : w \in hist}

\* p has returned from a single-record read of f in bucket b.
HasRead(p, b, f) ==
    /\ pc[p] = "done"
    /\ call[p].op \in {"get_rainfield", "get_state"}
    /\ call[p].b = b
    /\ call[p].filename = f

\* What a single-record read gives back for the write w when the payload of w
\* can be fetched and decoded: the payload and the stored form of the metadata.
ReadBack(w) ==
    IF w.b = "rain"
    THEN <<DataArray([i \in 1..Len(w.source.raw) |->
                        IF w.source.raw[i] < 0 THEN NaN ELSE Num(10 * w.source.raw[i])]),
           BsonDoc(w.metadata)>>
    ELSE LET m == BsonDoc(w.metadata)
             keys == {"cascade_levels", "domain", "normalized", "transform", "threshold",
                      "zerovalue"} \cup ({"means", "stds"} \cap DOMAIN m)
         IN  <<[k \in keys |-> IF k = "cascade_levels" THEN w.source.cascade_levels
                               ELSE IF k = "domain" THEN Str("spatial")
                               ELSE Get(m, k)],
               w.source.oflow, m>>

\* C1: overwrite.  After two or more writes of one filename in one bucket, made
\* one after the other, the bucket holds exactly one record of that filename,
\* the one of the last write, and a single-record read of the filename returns
\* the payload and the (stored form of the) metadata of the last write.
C1_Overwrite ==
    \A b \in Buckets : \A f \in Written :
        (Cardinality(WritesTo(b, f)) >= 2 /\ ~Writing(b, f)) =>
            LET w == LastWrite(b, f)
            IN  /\ \E d \in files[b] :
                      /\ FindByName(b, f) = {d}
                      /\ d.id = w.id
                      /\ d.data = w.source
                      /\ d.metadata = BsonDoc(w.metadata)
                /\ \A p \in Procs :
                      (HasRead(p, b, f) /\ Faulted = {} /\ w.source.t \in {"nc", "npz"}) =>
                          ret[p] = Ok(ReadBack(w))

\* A read has returned the second payload of a filename written twice with
\* different payloads and metadata.
C1_Witness ==
    \E p \in Procs : \E f \in Written :
        /\ HasRead(p, "rain", f)
        /\ Faulted = {}
        /\ Cardinality(WritesTo("rain", f)) >= 2
        /\ LET w == LastWrite("rain", f)
           IN  /\ w.source.t = "nc"
               /\ ret[p] = Ok(ReadBack(w))
               /\ \E v \in WritesTo("rain", f) :
                     /\ v.id < w.id
                     /\ v.source # w.source
                     /\ BsonDoc(v.metadata) # BsonDoc(w.metadata)

\* C2: under concurrent writers, a bucket holds at any time at most one record
\* of a filename.
C2_UniqueFilename ==
    \A b \in Buckets : \A d, e \in files[b] : d.filename = e.filename => d = e

\* p has returned from a single-record read of f during which no record of f
\* was inserted or deleted.
HasReadQuietly(p, b, f) ==
    /\ HasRead(p, b, f)
    /\ call[p].snap = <<nextId, FindByName(b, f)>>

\* C3: last write wins.  Once the writers of a filename have completed, a
\* single-record read made afterwards returns the payload and the metadata of
\* the write whose insert came last.
C3_LastWriteWins ==
    \A p \in Procs : \A b \in Buckets : \A f \in Written :
        ( /\ HasReadQuietly(p, b, f)
          /\ Cardinality(WritesTo(b, f)) >= 2
          /\ ~Writing(b, f) ) =>
            ret[p] = Ok(ReadBack(LastWrite(b, f)))

\* q is between the delete step and the insert step of a write of f that found
\* records to replace, and no other write has inserted f since q looked.
InWindow(q, b, f) ==
    /\ pc[q] = "w_upload"
    /\ call[q].b = b
    /\ call[q].filename = f
    /\ call[q].found # {}
    /\ \A w \in WritesTo(b, f) : w.id <= Max(call[q].found)

\* The last write of f replaced records, and every other write of f had
\* inserted before it looked: no other write overlapped it.
Overwritten(b, f) ==
    /\ WritesTo(b, f) # {}
    /\ ~Writing(b, f)
    /\ LET w == LastWrite(b, f)
       IN  /\ w.replaced # {}
           /\ \A v \in WritesTo(b, f) \ {w} : v.id <= Max(w.replaced)

\* C4: a write is not atomic.  While a write that replaces a filename is
\* between its delete step and its insert step the filename has no record and
\* a concurrent read of it returns the absent result; once the insert is done
\* the filename has the new record and a read returns it.
C4_NotAtomic ==
    \A b \in Buckets : \A f \in ConcFiles :
        /\ \A q \in Procs : InWindow(q, b, f) =>
              /\ FindByName(b, f) = {}
              /\ \A p \in Procs :
                    (HasRead(p, b, f) /\ call[p].snap = <<nextId, {}>>) =>
                        ret[p] = Ok(IF b = "rain" THEN <<EmptyDataArray, EmptyDict>>
                                    ELSE <<EmptyDict, Arr(<<>>), EmptyDict>>)
        /\ Overwritten(b, f) =>
              LET w == LastWrite(b, f)
              IN  /\ \E d \in files[b] :
                        /\ FindByName(b, f) = {d}
                        /\ d.id = w.id
                        /\ d.data = w.source
                  /\ \A p \in Procs :
                        HasReadQuietly(p, b, f) => ret[p] = Ok(ReadBack(w))

\* A read that began and ended between the delete and the insert of a write
\* replacing the filename has returned.
C4_Witness ==
    \E p, q \in Procs : \E b \in Buckets : \E f \in ConcFiles :
        /\ InWindow(q, b, f)
        /\ HasRead(p, b, f)
        /\ call[p].snap = <<nextId, {}>>
        /\ ret[p].rc = "ok"

\* A read made after the insert of a replacing write has returned.
C4_After ==
    \E p \in Procs : \E b \in Buckets : \E f \in ConcFiles :
        /\ Overwritten(b, f)
        /\ HasReadQuietly(p, b, f)

\* C5: a single-record read of a filename that has no metadata document returns
\* the empty payload with empty metadata and does not raise, whatever else the
\* store holds.
C5_AbsentRead ==
    \A p \in Procs : \A b \in Buckets : \A f \in SeqFiles :
        (HasRead(p, b, f) /\ \A d \in files[b] : d.filename # f) =>
            ret[p] = Ok(IF b = "rain" THEN <<DataArray(<<>>), EmptyDict>>
                        ELSE <<EmptyDict, Arr(<<>>), EmptyDict>>)

\* A read of a filename without a record has returned from a bucket that holds
\* other records, one of them damaged.
C5_Witness ==
    \E p \in Procs : \E b \in Buckets : \E f \in SeqFiles :
        /\ HasRead(p, b, f)
        /\ \A d \in files[b] : d.filename # f
        /\ \E d \in files[b] : d.chunks # "ok"
        /\ ret[p].rc = "ok"

\* C6: when the metadata document of a filename exists and its payload cannot
\* be fetched (chunks missing), a single-record read returns the stored
\* metadata with an empty payload and does not raise.
C6_PayloadLost ==
    \A p \in Procs : \A b \in Buckets : \A f \in SeqFiles :
        \A d \in files[b] :
            (HasRead(p, b, f) /\ d.filename = f /\ d.chunks = "lost") =>
                ret[p] = Ok(IF b = "rain" THEN <<DataArray(<<>>), d.metadata>>
                            ELSE <<EmptyDict, Arr(<<>>), d.metadata>>)

\* A read of a record whose chunks are lost has returned its metadata.
C6_Witness ==
    \E p \in Procs : \E b \in Buckets : \E f \in SeqFiles :
        \E d \in files[b] :
            /\ HasRead(p, b, f)
            /\ d.filename = f
            /\ d.chunks = "lost"
            /\ ret[p].rc = "ok"
            /\ "valid_time" \in DOMAIN d.metadata

\* The bytes of d arrive but are not a payload of bucket b: the chunks are
\* damaged, or what was uploaded is no NetCDF file / no archive.
Undecodable(b, d) ==
    \/ d.chunks \in {"garbled", "member"}
    \/ d.chunks = "ok" /\ d.data.t # (IF b = "rain" THEN "nc" ELSE "npz")

\* C7: single-record reads are strict.  When the metadata of the filename
\* exists and the payload bytes arrive but cannot be decoded, get_rainfield and
\* get_state end with an error raised to the caller.
C7_ReadsRaise ==
    \A p \in Procs : \A b \in Buckets : \A f \in SeqFiles :
        \A d \in files[b] :
            (HasRead(p, b, f) /\ d.filename = f /\ Undecodable(b, d)) =>
                ret[p].rc = "raise"

\* p has returned from a batch read.
HasQueried(p) ==
    /\ pc[p] = "done"
    /\ call[p].op \in {"get_rainfields_df", "get_states_df"}

\* C8: a batch read never raises because of bad records: whatever the store
\* holds and whatever the query, the call returns a table.
C8_BatchNeverRaises ==
    \A p \in Procs : HasQueried(p) => ret[p].rc = "ok"

\* The batch read of p can use d: it has a valid_time, its chunks arrive, and
\* the bytes decode as far as the call reads them.
Usable(p, d) ==
    /\ "valid_time" \in DOMAIN d.metadata
    /\ d.data.t = (IF call[p].b = "rain" THEN "nc" ELSE "npz")
    /\ \/ d.chunks = "ok"
       \/ d.chunks = "member" /\ ~call[p].get_cascade /\ ~call[p].get_optical_flow

RowsOf(p) == IF ret[p].rc = "ok" THEN ret[p].val.rows ELSE <<>>

\* C9: the rows of a batch read are exactly the matched documents that have a
\* valid_time and a payload that is fetched and decoded, one row each, in
\* ascending filename order; a document without valid_time or with a failing
\* payload gives no row and leaves the other rows as they are.
C9_BatchRows ==
    \A p \in Procs : HasQueried(p) =>
        LET b == call[p].b
            S == {d \in files[b] : Matches(call[p].query, d) /\ Usable(p, d)}
            rows == RowsOf(p)
        IN  /\ Len(rows) = Cardinality(S)
            /\ \A d \in S :
                  LET row == rows[Cardinality({e \in S : StrLess(e.filename, d.filename)}) + 1]
                  IN  /\ row.metadata = d.metadata
                      /\ b = "rain" =>
                            row.rainfield =
                               DataArray([i \in 1..Len(d.data.raw) |->
                                            IF d.data.raw[i] < 0 THEN NaN
                                            ELSE Num(10 * d.data.raw[i])])
                      /\ (b = "state" /\ call[p].get_cascade) =>
                            row.cascade.cascade_levels = d.data.cascade_levels
                      /\ (b = "state" /\ call[p].get_optical_flow) =>
                            row.optical_flow = d.data.oflow

\* The rainfall records written so far, when each was written once under the
\* canonical name of its valid_time, with a payload that decodes, and no two
\* have the same valid_time.
RainWrites == {w \in hist : w.b = "rain"}
WrittenCanonically ==
    /\ RainWrites # {}
    /\ Faulted = {}
    /\ \A w \in RainWrites :
          /\ "valid_time" \in DOMAIN w.metadata
          /\ w.filename = make_nc_name(w.metadata["domain"].s, w.metadata["product"].s,
                                       w.metadata["valid_time"], w.metadata["base_time"],
                                       w.metadata["ensemble"], None).val
          /\ w.source.t = "nc"
    /\ \A v, w \in RainWrites :
          v # w => Bson(v.metadata["valid_time"]) # Bson(w.metadata["valid_time"])

\* The query asks for one product on the range [min, max] of the written times.
SpansWrites(query) ==
    /\ query.product = Str(ProductName)
    /\ query.range # None
    /\ \E w \in RainWrites : Bson(w.metadata["valid_time"]) = Bson(query.range.gte)
    /\ \E w \in RainWrites : Bson(w.metadata["valid_time"]) = Bson(query.range.lte)
    /\ \A w \in RainWrites :
          /\ DtLeq(Bson(query.range.gte), Bson(w.metadata["valid_time"]))
          /\ DtLeq(Bson(w.metadata["valid_time"]), Bson(query.range.lte))

\* C10: sort and filter.  After N records of one domain and product are written
\* with N distinct valid_time values under their canonical filenames, a query
\* on the range [min, max] of those times returns exactly those N records, in
\* ascending filename order, which is also ascending valid_time order.
C10_SortedByTime ==
    \A p \in Procs :
        ( /\ HasQueried(p)
          /\ call[p].b = "rain"
          /\ WrittenCanonically
          /\ SpansWrites(call[p].query) ) =>
            /\ ret[p].rc = "ok"
            /\ LET rows == ret[p].val.rows
               IN  /\ Len(rows) = Cardinality(RainWrites)
                   /\ \A w \in RainWrites :
                         \E i \in 1..Len(rows) : rows[i].metadata = BsonDoc(w.metadata)
                   /\ \A i, j \in 1..Len(rows) :
                         i < j =>
                            /\ Instant(rows[i].valid_time) < Instant(rows[j].valid_time)

\* The columns of a batch read that has rows.
RowColumns(b) ==
    IF b = "rain"
    THEN <<"domain", "product", "valid_time", "base_time", "ensemble", "rainfield",
           "metadata">>
    ELSE <<"domain", "product", "valid_time", "base_time", "ensemble", "cascade",
           "optical_flow", "metadata">>

\* C11: when no document matches the query, a batch read returns, without
\* raising, an empty table whose columns are the columns of every non-empty
\* result: domain, product, valid_time, base_time, ensemble, the payload
\* columns, metadata.
C11_EmptyTable ==
    \A p \in Procs :
        (HasQueried(p) /\ \A d \in files[call[p].b] : ~Matches(call[p].query, d)) =>
            /\ ret[p].rc = "ok"
            /\ ret[p].val.rows = <<>>
            /\ ret[p].val.columns = RowColumns(call[p].b)

\* C12: every row of get_rainfields_df and get_states_df has a
\* timezone-qualified valid_time and a base_time that is null or
\* timezone-qualified; a time stored without timezone appears in the row as
\* the same wall-clock time tagged UTC.
C12_RowTimes ==
    \A p \in Procs : HasQueried(p) =>
        \A i \in 1..Len(RowsOf(p)) :
            LET row == RowsOf(p)[i]
                vt == row.metadata["valid_time"]
                bt == Get(row.metadata, "base_time")
            IN  /\ row.valid_time.aware
                /\ ~vt.aware =>
                      row.valid_time = Dt(vt.day, vt.hour, vt.us, TRUE, 0)
                /\ IF bt = None THEN row.base_time = None
                   ELSE /\ row.base_time.aware
                        /\ ~bt.aware =>
                              row.base_time = Dt(bt.day, bt.hour, bt.us, TRUE, 0)

\* A batch read has returned a row of a record stored with a base_time.
C12_Witness ==
    \E p \in Procs :
        /\ HasQueried(p)
        /\ \E i \in 1..Len(RowsOf(p)) :
              /\ ~RowsOf(p)[i].metadata["valid_time"].aware
              /\ Get(RowsOf(p)[i].metadata, "base_time") # None
              /\ RowsOf(p)[i].base_time # None

\* p has returned from the helper function op.
HasCalled(p, op) == pc[p] = "done" /\ call[p].op = op

\* C13: make_metadata raises a ValueError when valid_time has no timezone, and
\* when base_time is given and has no timezone, and then produces no metadata;
\* every metadata dictionary it produces has a timezone-qualified valid_time.
C13_MetadataTimes ==
    \A p \in Procs : HasCalled(p, "make_metadata") =>
        LET vt == call[p].valid_time
            bt == call[p].base_time
        IN  /\ (~vt.aware \/ (bt # None /\ ~bt.aware)) =>
                  ret[p] = [rc |-> "raise", val |-> Str("ValueError")]
            /\ ret[p].rc = "ok" => ret[p].val["valid_time"].aware

\* make_metadata has raised on a naive base_time given with an aware valid_time.
C13_Witness ==
    \E p \in Procs :
        /\ HasCalled(p, "make_metadata")
        /\ call[p].valid_time.aware
        /\ call[p].base_time # None
        /\ ~call[p].base_time.aware
        /\ ret[p].rc = "raise"

\* C14: naming determinism.  Under the default template make_nc_name is a
\* function of (domain, product, valid_time, base_time, ensemble): equal inputs
\* give equal filenames, and two tuples that differ in any of the five
\* components give different filenames.
C14_NamingDeterminism ==
    \A p \in Procs :
        ( /\ HasCalled(p, "make_nc_name")
          /\ call[p].name_template = None
          /\ ret[p].rc = "ok" ) =>
            LET c == call[p]
            IN  /\ ret[p] = make_nc_name(c.name, c.prod, c.valid_time, c.base_time, c.ens,
                                         None)
                /\ \A n \in FnNames, pr \in FnProducts, vt \in FnNameTimes,
                      bt \in {None, TBase}, e \in FnEnsembles :
                      <<n, pr, vt, bt, e>> # <<c.name, c.prod, c.valid_time, c.base_time,
                                               c.ens>> =>
                          LET other == make_nc_name(n, pr, vt, bt, e, None)
                          IN  other.rc = "ok" => other.val # ret[p].val

\* A time as %Y%m%dT%H%M%S (July 2025, minute and second 0).
Stamp(time) ==
    <<"2", "0", "2", "5", "0", "7">>
    \o <<Digit(time.day \div 10), Digit(time.day % 10)>> \o <<"T">>
    \o <<Digit(time.hour \div 10), Digit(time.hour % 10)>> \o <<"0", "0", "0", "0">>

\* C15: with no template given, make_nc_name returns domain, '_', product, '_',
\* valid_time as %Y%m%dT%H%M%S, then '_' and the formatted base_time if and
\* only if base_time is given, then '_' and the ensemble number zero-padded to
\* two digits if and only if ens is given, then '.nc'.
C15_DefaultName ==
    \A p \in Procs :
        (HasCalled(p, "make_nc_name") /\ call[p].name_template = None) =>
            LET c == call[p]
            IN  ret[p] =
                  [rc |-> "ok",
                   val |-> c.name \o <<"_">> \o c.prod \o <<"_">> \o Stamp(c.valid_time)
                           \o (IF c.base_time = None THEN <<>>
                               ELSE <<"_">> \o Stamp(c.base_time))
                           \o (IF c.ens = None THEN <<>>
                               ELSE <<"_", Digit(c.ens.n \div 10), Digit(c.ens.n % 10)>>)
                           \o <<".", "n", "c">>]

\* The '$' at position i of template t starts no proper token: no letter
\* follows, or a letter other than N, P, V, B, E, or V or B without its own
\* {format} group right behind it, or B without base_time, or E without ens.
BadToken(t, i, base_time, ens) ==
    \/ i = Len(t)
    \/ /\ i < Len(t)
       /\ \/ t[i + 1] \notin {"N", "P", "V", "B", "E"}
          \/ /\ t[i + 1] \in {"V", "B"}
             /\ ~ /\ i + 2 <= Len(t)
                  /\ t[i + 2] = "{"
                  /\ \E j \in (i + 3)..Len(t) : t[j] = "}"
          \/ t[i + 1] = "B" /\ base_time = None
          \/ t[i + 1] = "E" /\ ens = None

\* C16: make_nc_name raises a ValueError, and returns no filename, for every
\* malformed or misused template: a token letter other than N, P, V, B, E; a
\* $V or $B not directly followed by its own {format} group; a $B or $E when
\* base_time or ens is absent.
C16_TemplateErrors ==
    \A p \in Procs :
        ( /\ HasCalled(p, "make_nc_name")
          /\ call[p].name_template # None
          /\ \E i \in 1..Len(call[p].name_template.s) :
                /\ call[p].name_template.s[i] = "$"
                /\ BadToken(call[p].name_template.s, i, call[p].base_time, call[p].ens) ) =>
            ret[p] = [rc |-> "raise", val |-> Str("ValueError")]

\* The documents of the config collection whose configuration is named name.
NamedConfigs(name) ==
    {i \in 1..Len(configs) :
        "name" \in DOMAIN configs[i].config /\ configs[i].config["name"] = Str(name)}

\* C17: with the server answering, get_config(name) returns the configuration
\* of a document of that name whose time no other document of that name
\* exceeds, whatever documents of other names there are, and the empty
\* dictionary, without raising, when no document has that name.
C17_LatestConfig ==
    \A p \in Procs :
        (HasCalled(p, "get_config") /\ up) =>
            IF NamedConfigs(call[p].name) = {}
            THEN ret[p] = [rc |-> "ok", val |-> EmptyDict]
            ELSE \E i \in NamedConfigs(call[p].name) :
                    /\ \A j \in NamedConfigs(call[p].name) :
                          configs[j].time <= configs[i].time
                    /\ ret[p] = [rc |-> "ok", val |-> configs[i].config]

\* get_config("AKL") has returned while the collection holds two versions for
\* AKL written at different times and a later document for WLG.
C17_Witness ==
    /\ HasCalled(Caller, "get_config")
    /\ up
    /\ call[Caller].name = Akl
    /\ Len(configs) = 3
    /\ configs[1].config["name"] = Str(Akl)
    /\ configs[2].config["name"] = Str(Akl)
    /\ configs[1].config # configs[2].config
    /\ configs[1].time < configs[2].time
    /\ configs[3].config["name"] = Str(Wlg)
    /\ configs[2].time < configs[3].time
    /\ ret[Caller] = [rc |-> "ok", val |-> configs[2].config]

\* C18: the configuration history is append-only.  No step changes or removes
\* a document of the config collection; the collection changes only when a
\* write_config inserts, and an insert that reaches the server adds exactly
\* one document, the configuration with the time the call read.
C18_AppendOnly ==
    [][ /\ Len(configs') >= Len(configs)
        /\ \A i \in 1..Len(configs) : configs'[i] = configs[i]
        /\ \A p \in Procs :
              (pc[p] = "c_insert" /\ pc'[p] = "done" /\ up) =>
                  configs' = Append(configs, [time |-> call[p].record.time,
                                              config |-> call[p].config])
        /\ configs' # configs =>
              \E p \in Procs : pc[p] = "c_insert" /\ pc'[p] = "done"
      ]_vars

\* A write_config has inserted a document behind two earlier ones.
C18_Witness ==
    /\ HasCalled(Caller, "write_config")
    /\ up
    /\ Len(configs) = 3
    /\ configs[3] = [time |-> call[Caller].record.time, config |-> call[Caller].config]

\* The operations of the layer that make requests to the server.
StoreOps ==
    {"write_rainfield", "write_state", "get_rainfield", "get_state",
     "get_rainfields_df", "get_states_df", "get_config", "write_config"}

\* C19: an operation that ends while the server does not answer ends with
\* the error of the server selection raised to its caller; none returns a
\* normal result.
C19_UnreachableRaises ==
    \A p \in Procs :
        (pc[p] = "done" /\ ~up /\ call[p].op \in StoreOps) =>
            ret[p] = [rc |-> "raise", val |-> Str("ServerSelectionTimeoutError")]

\* C20: the raster round trip.  A cell with a finite value comes back as a
\* number within 0.05 (5 hundredths) of it, and a NaN cell comes back as NaN.
C20_RoundTrip ==
    \A p \in Procs :
        HasCalled(p, "round_trip") =>
            /\ ret[p].rc = "ok"
            /\ Len(ret[p].val.vals) = Len(call[p].rain.vals)
            /\ \A i \in 1..Len(call[p].rain.vals) :
                  IF call[p].rain.vals[i] = NaN THEN ret[p].val.vals[i] = NaN
                  ELSE /\ ret[p].val.vals[i] # NaN
                       /\ ret[p].val.vals[i].n - call[p].rain.vals[i].n <= 5
                       /\ call[p].rain.vals[i].n - ret[p].val.vals[i].n <= 5

\* C21: a write_state whose cascade is not of the spatial domain ends at once
\* with an error, and the step leaves both buckets and the id counter as they
\* were: no record is deleted, none is inserted.
C21_NonSpatialRejected ==
    [][ \A p \in Procs :
            ( /\ pc[p] = "idle"
              /\ pc'[p] # "idle"
              /\ call'[p].op = "write_state"
              /\ call'[p].cascade_dict["domain"] # Str("spatial") ) =>
                /\ pc'[p] = "done"
                /\ ret'[p] = [rc |-> "raise", val |-> Str("AssertionError")]
                /\ files' = files
                /\ nextId' = nextId
      ]_vars

\* A write_state of a spectral cascade has failed under a filename that holds
\* a state record, and the record is still there.
C21_Witness ==
    \E p \in Procs :
        /\ HasCalled(p, "write_state")
        /\ call[p].cascade_dict["domain"] = Str("spectral")
        /\ ret[p] = [rc |-> "raise", val |-> Str("AssertionError")]
        /\ \E d \in files["state"] :
              /\ d.filename = call[p].filename
              /\ d.chunks = "ok"
              /\ \E w \in hist : w.id = d.id /\ w.b = "state" /\ d.data = w.source

\* The write_state calls that stored a normalized cascade with means and stds.
Normalized(w) ==
    /\ w.b = "state"
    /\ w.cascade_dict["normalized"] = Bool(TRUE)
    /\ {"means", "stds"} \subseteq DOMAIN w.cascade_dict
    /\ w.cascade_dict["means"] # None
    /\ w.cascade_dict["stds"] # None

\* C22: state round trip.  When the last write_state of a filename stored a
\* spatial cascade, normalized and with means and stds, and a motion field,
\* and the chunks are intact, get_state of the filename returns the cascade
\* levels, the means, the stds and the motion field that were written.
C22_StateRoundTrip ==
    \A p \in Procs : \A f \in Written :
        ( /\ HasRead(p, "state", f)
          /\ WritesTo("state", f) # {}
          /\ ~Writing("state", f)
          /\ Faulted = {}
          /\ Normalized(LastWrite("state", f)) ) =>
            LET w == LastWrite("state", f)
            IN  /\ ret[p].rc = "ok"
                /\ {"cascade_levels", "means", "stds"} \subseteq DOMAIN ret[p].val[1]
                /\ ret[p].val[1]["cascade_levels"] = w.cascade_dict["cascade_levels"]
                /\ ret[p].val[1]["means"] = w.cascade_dict["means"]
                /\ ret[p].val[1]["stds"] = w.cascade_dict["stds"]
                /\ ret[p].val[2] = w.oflow

\* get_state has returned a normalized cascade written under its filename.
C22_Witness ==
    \E p \in Procs : \E f \in Written :
        /\ HasRead(p, "state", f)
        /\ WritesTo("state", f) # {}
        /\ Faulted = {}
        /\ Normalized(LastWrite("state", f))
        /\ ret[p].rc = "ok"
        /\ ret[p].val[1]["means"] = Arr(<<7, 8, 9>>)
        /\ ret[p].val[2] = Oflow1

\* The metadata keys write_state takes from the cascade.
CodecKeys == {"domain", "normalized", "transform", "threshold", "zerovalue", "means", "stds"}

\* The value the cascade c has for the codec key k: means and stds are absent
\* when the cascade has none, the other keys are None when it has none.
CodecValue(c, k) ==
    IF k \in DOMAIN c THEN <<"set", c[k]>>
    ELSE IF k \in {"means", "stds"} THEN <<"absent">>
    ELSE <<"set", None>>

\* The same for a dictionary that was read back.
ReadValue(m, k) == IF k \in DOMAIN m THEN <<"set", m[k]>> ELSE <<"absent">>

\* C27: whatever keys field_metadata has, the codec fields of a stored state
\* record are those of the cascade that was written, and get_state returns
\* normalized, transform, threshold, zerovalue, means and stds equal to the
\* values of that cascade.
C27_CodecFields ==
    /\ \A d \in files["state"] : \A w \in hist :
          (w.b = "state" /\ w.id = d.id) =>
              \A k \in CodecKeys : ReadValue(d.metadata, k) = CodecValue(w.cascade_dict, k)
    /\ \A p \in Procs : \A f \in Written :
          ( /\ HasRead(p, "state", f)
            /\ WritesTo("state", f) # {}
            /\ ~Writing("state", f)
            /\ Faulted = {} ) =>
              /\ ret[p].rc = "ok"
              /\ \A k \in CodecKeys \ {"domain"} :
                    ReadValue(ret[p].val[1], k) =
                        CodecValue(LastWrite("state", f).cascade_dict, k)

\* The cascade dictionary get_state returns for the stored state record d:
\* means and stds are keys of it only when they are keys of the metadata.
SingleCascade(d) ==
    [k \in {"cascade_levels", "domain", "normalized", "transform", "threshold",
            "zerovalue"} \cup ({"means", "stds"} \cap DOMAIN d.metadata) |->
        IF k = "cascade_levels" THEN d.data.cascade_levels
        ELSE IF k = "domain" THEN Str("spatial")
        ELSE Get(d.metadata, k)]

\* C28: each row of a batch read of states, asked for cascade and motion
\* field, holds the cascade dictionary (same keys, same values) and the motion
\* field that get_state returns for the stored record of the row.
C28_SameState ==
    \A p \in Procs :
        ( /\ HasQueried(p)
          /\ call[p].b = "state"
          /\ call[p].get_cascade
          /\ call[p].get_optical_flow
          /\ Faulted = {} ) =>
            \A i \in 1..Len(RowsOf(p)) :
                \E d \in files["state"] :
                    /\ d.metadata = RowsOf(p)[i].metadata
                    /\ RowsOf(p)[i].cascade = SingleCascade(d)
                    /\ RowsOf(p)[i].optical_flow = d.data.oflow

\* C23: time round trip.  The valid_time read back is tagged UTC, has whole
\* seconds, and is the instant that was written: the wall clock itself for a
\* valid_time without timezone, the wall clock less the offset otherwise.
C23_TimeRoundTrip ==
    \A p \in Procs :
        HasCalled(p, "time_round_trip") =>
            LET vt == call[p].valid_time
            IN  /\ ret[p].rc = "ok"
                /\ ret[p].val.t = "dt"
                /\ ret[p].val.aware
                /\ ret[p].val.off = 0
                /\ ret[p].val.us = 0
                /\ ret[p].val.day * 24 + ret[p].val.hour =
                       vt.day * 24 + vt.hour - (IF vt.aware THEN vt.off ELSE 0)

\* 02:00 at UTC+3 on day 3 has been written and read back as 23:00 UTC on
\* day 2.
C23_Witness ==
    \E p \in Procs :
        /\ HasCalled(p, "time_round_trip")
        /\ call[p].valid_time = TOff
        /\ ret[p] = [rc |-> "ok", val |-> Dt(2, 23, 0, TRUE, 0)]

\* C25: make_nc_name terminates.  No call is ever inside the loop over the
\* flags after more replacements than any template needs: each call returns a
\* filename or raises.
C25_NamingTerminates ==
    \A p \in Procs : pc[p] # "n_loop"

\* C24: no torn read.  A single-record read that returns a payload returns it
\* with the metadata of the write call that stored that payload: the result
\* is what one of the writes of the filename reads back as.
C24_NoTornRead ==
    \A p \in Procs : \A b \in Buckets : \A f \in Written :
        ( /\ HasRead(p, b, f)
          /\ ret[p].rc = "ok"
          /\ ret[p].val[1] \notin {EmptyDataArray, EmptyDict} ) =>
            \E w \in WritesTo(b, f) : ret[p] = Ok(ReadBack(w))

\* p takes a step of a write call: it enters the call or makes one request.
WriteStep(p) ==
    \/ pc[p] = "idle" /\ pc'[p] # "idle" /\ call'[p].op \in {"write_rainfield", "write_state"}
    \/ pc[p] \in WriteSteps /\ (pc'[p] # pc[p] \/ call'[p] # call[p])

====
